---------------------------- MODULE Spec2Model ----------------------------
(***************************************************************************)
(* Model of the inventory service: InventoryManager (addProduct,           *)
(* updateStock, createTransaction and its event dispatch) running against  *)
(* the MySQL schema of database.sql (unique keys, foreign keys, CHECK      *)
(* constraints and the trigger trg_transaction_after_insert).              *)
(*                                                                         *)
(* Every request is an async function: it runs synchronously up to its     *)
(* next `await this.connection.execute(...)`, and the statements of the    *)
(* requests in flight are executed by the store one at a time, in any      *)
(* order across requests.  One action of the model is one statement        *)
(* executed by the store together with the synchronous code that follows   *)
(* it up to the next await (or the return / throw).                        *)
(*                                                                         *)
(* Spec is the service once init() has connected; SpecObserver adds        *)
(* observers that raise; SpecStartup starts with init() pending;           *)
(* SpecValidate runs validateInput alone on any field values and           *)
(* SpecStockPaths the three stock-applying paths alone.  The status code    *)
(* of server.js for each outcome is StatusCode.                            *)
(***************************************************************************)
EXTENDS Integers, Sequences, FiniteSets, Bags, TLC

VARIABLES
    products,       \* table products: product_id -> row, or NoRow
    transactions,   \* table transactions: transaction_id -> row, or NoRow
    checkEnforced,  \* whether the store enforces CHECK clauses (it parses and
                    \* ignores them before MySQL 8.0.16; MariaDB 10.2 enforces)
    connection,     \* this.connection: "pending" (null, createConnection
                    \* awaited), "connected", or "exited" (null, the process
                    \* ended by the rejection of init())
    faulty,         \* event kinds with a registered observer that raises
    req,            \* the bag of calls, in flight or returned: each one's
                    \* position, arguments, locals and outcome
    calls,          \* number of calls made so far
    stock0          \* ghost: product_id -> stock the product was created with

vars == <<products, transactions, checkEnforced, connection, faulty, req, calls,
          stock0>>

(***************************** bounds ***************************************)
NumRequests == 2     \* requests that can be in flight together
MaxCalls == 2        \* calls made in one behaviour

(************************ program constants *********************************)
lowStockThreshold == 10

ProductIds == {"P1", "P2"}
TransactionIds == {"T1", "T2"}
Customers == {"C1"}            \* rows of table customers (only read)
TransactionTypes == {"sale", "purchase", "restock", "return", "adjustment"}
EventKinds == {"lowStock", "transactionComplete"}

NoRow == [exists |-> FALSE]

(************************* JavaScript values ********************************)
Undefined == [t |-> "undefined", s |-> "", n |-> 0]
Str(x) == [t |-> "string", s |-> x, n |-> 0]
Num(x) == [t |-> "number", s |-> "", n |-> x]

typeof(v) == v.t

\* !v
Falsy(v) ==
    \/ v.t = "undefined"
    \/ v.t = "string" /\ v.s = ""
    \/ v.t = "number" /\ v.n = 0

(***************************** outcomes *************************************)
NoResult == [status |-> "none"]
Success(data) == [status |-> "ok", data |-> data]
\* InventoryNotificationError(message, type): the message's parts are kept
InventoryNotificationError(type, info) ==
    [status |-> "error", typed |-> TRUE, type |-> type, info |-> info]
\* an error of the driver or of an observer, rethrown as it is
RawError(code) ==
    [status |-> "error", typed |-> FALSE, type |-> code, info |-> <<>>]

(**************************** validateInput *********************************)
Rule(f, ty, hasMin, min) ==
    [field |-> f, required |-> TRUE, type |-> ty, hasMin |-> hasMin, min |-> min]

addProductRules ==
    << Rule("productId", "string", FALSE, 0),
       Rule("name", "string", FALSE, 0),
       Rule("price", "number", TRUE, 0),
       Rule("stock", "number", TRUE, 0),
       Rule("category", "string", FALSE, 0) >>

updateStockRules ==
    << Rule("productId", "string", FALSE, 0),
       Rule("quantity", "number", TRUE, 1),
       Rule("transactionType", "string", FALSE, 0) >>

createTransactionRules ==
    << Rule("transactionId", "string", FALSE, 0),
       Rule("productId", "string", FALSE, 0),
       Rule("quantity", "number", TRUE, 1),
       Rule("type", "string", FALSE, 0),
       Rule("customerId", "string", FALSE, 0) >>

\* the three tests of one loop iteration, in the code's order; `rule.min &&`
\* is false for min: 0 as for no min at all
CheckRule(v, rule) ==
    IF rule.required /\ Falsy(v) THEN "required"
    ELSE IF typeof(v) # rule.type THEN "type"
    ELSE IF (rule.hasMin /\ rule.min # 0) /\ v.n < rule.min THEN "min"
    ELSE "ok"

\* NoResult when every rule passes, else the error of the first violated rule
validateInput(data, rules) ==
    LET bad == {i \in 1..Len(rules) : CheckRule(data[rules[i].field], rules[i]) # "ok"}
    IN  IF bad = {} THEN NoResult
        ELSE LET i == CHOOSE j \in bad : \A k \in bad : j <= k
             IN  InventoryNotificationError("VALIDATION_ERROR",
                     <<rules[i].field, CheckRule(data[rules[i].field], rules[i])>>)


(****************************** the store ***********************************)
\* CHECK (price >= 0), CHECK (stock >= 0) of table products
ProductChecksHold(price, stock) == price >= 0 /\ stock >= 0

\* the stock trg_transaction_after_insert leaves after a row of this type
TriggerStock(type, quantity, stock) ==
    IF type = "sale" THEN stock - quantity
    ELSE IF type \in {"purchase", "restock"} THEN stock + quantity
    ELSE stock

\* INSERT INTO products: the error code, or "ok"
InsertProductOutcome(pid, price, stock) ==
    IF checkEnforced /\ ~ProductChecksHold(price, stock)
        THEN "ER_CHECK_CONSTRAINT_VIOLATED"
    ELSE IF products[pid].exists THEN "ER_DUP_ENTRY"
    ELSE "ok"

\* mutant: transaction_id has no unique key, and the INSERT replaces the row
InsertTransactionOutcomeNoUniqueKey(tid, pid, quantity, type, cid) ==
    IF type \notin TransactionTypes THEN "WARN_DATA_TRUNCATED"
    ELSE IF ~products[pid].exists \/ cid \notin Customers
        THEN "ER_NO_REFERENCED_ROW_2"
    ELSE IF checkEnforced
            /\ ~ProductChecksHold(products[pid].price,
                                  TriggerStock(type, quantity, products[pid].stock))
        THEN "ER_CHECK_CONSTRAINT_VIOLATED"
    ELSE "ok"

\* INSERT INTO transactions, trigger included: the error code, or "ok".  A
\* failing trigger fails the statement, and the row is not inserted.
InsertTransactionOutcome(tid, pid, quantity, type, cid) ==
    IF type \notin TransactionTypes THEN "WARN_DATA_TRUNCATED"
    ELSE IF transactions[tid].exists THEN "ER_DUP_ENTRY"
    ELSE IF ~products[pid].exists \/ cid \notin Customers
        THEN "ER_NO_REFERENCED_ROW_2"
    ELSE IF checkEnforced
            /\ ~ProductChecksHold(products[pid].price,
                                  TriggerStock(type, quantity, products[pid].stock))
        THEN "ER_CHECK_CONSTRAINT_VIOLATED"
    ELSE "ok"

(***************************** requests *************************************)
\* the arguments of a call, under the parameters' names
AddProductArgs(pid, price, stock) ==
    [productId |-> pid, name |-> Str("name"), price |-> price, stock |-> stock,
     category |-> Str("X")]
UpdateStockArgs(pid, quantity, type) ==
    [productId |-> pid, quantity |-> quantity, transactionType |-> type]
CreateTransactionArgs(tid, pid, quantity, type, cid) ==
    [transactionId |-> tid, productId |-> pid, quantity |-> quantity,
     type |-> type, customerId |-> cid]

\* the calls the clients make: on the product of the initial store, every
\* valid quantity and type; a product that may not exist; a type outside the
\* ENUM of the transactions table; a stock that is 0, and one below 0
QuantityArgs == {Num(1), Num(3)}
TypeArgs == {Str("sale"), Str("purchase"), Str("return")}
TransactionIdArgs == {Str("T1"), Str("T2")}
PriceArgs == {Num(50)}
StockArgs == {Num(0), Num(5), Num(-1)}
InitStocks == {1, 3, 12}

AddProductCalls ==
    {AddProductArgs(Str("P2"), price, stock) : price \in PriceArgs, stock \in StockArgs}
    \cup {AddProductArgs(Str("P1"), price, Num(5)) : price \in PriceArgs}

UpdateStockCalls ==
    {UpdateStockArgs(Str("P1"), quantity, type) :
        quantity \in QuantityArgs, type \in TypeArgs}
    \cup {UpdateStockArgs(Str("P2"), Num(1), Str("sale")),
          UpdateStockArgs(Str("P1"), Num(1), Str("restock")),
          UpdateStockArgs(Str("P1"), Num(1), Str("adjustment"))}

CreateTransactionCalls ==
    {CreateTransactionArgs(tid, Str("P1"), quantity, type, Str("C1")) :
        tid \in TransactionIdArgs, quantity \in QuantityArgs, type \in TypeArgs}
    \cup {CreateTransactionArgs(Str("T1"), Str("P2"), Num(1), Str("sale"), Str("C1")),
          CreateTransactionArgs(Str("T1"), Str("P1"), Num(1), Str("exchange"), Str("C1"))}


\* a call as it starts
NewReq ==
    [pc |-> "called", op |-> "none",
     args |-> <<>>,
     price |-> 0,            \* createTransaction: product.price
     oldStock |-> <<>>,      \* updateStock: product.stock, once it has been read
     newStock |-> 0,         \* updateStock: newStock
     result |-> NoResult,    \* what the call returned or threw
     inserted |-> FALSE,     \* ghost: this call's INSERT was persisted
     dupKey |-> FALSE,       \* ghost: this call's INSERT met its key in the table
     written |-> <<>>,       \* ghost: the stock in the store after this call's UPDATE
     lowStock |-> <<>>,      \* stock values of the lowStock events emitted
     txComplete |-> FALSE,   \* a transactionComplete event was emitted
     observerRaised |-> FALSE]

\* the calls on record, and those of them still running
Requests == BagToSet(req)
InFlight == [rq \in {x \in Requests : x.pc # "done"} |-> req[rq]]

\* one call moves on
Replace(rq, new) == (req (-) SetToBag({rq})) (+) SetToBag({new})

\* a call runs up to its first await, or to the throw of validateInput
Entered(op, args, firstPc, error) ==
    IF error = NoResult
        THEN [NewReq EXCEPT !.pc = firstPc, !.op = op, !.args = args]
        ELSE [NewReq EXCEPT !.pc = "done", !.op = op, !.args = args, !.result = error]

\* a call starts; the returned ones are kept on record until then
Begin(op, args, firstPc, error) ==
    /\ calls < MaxCalls
    /\ BagCardinality(InFlight) < NumRequests
    /\ connection # "exited"
    /\ req' = InFlight (+) SetToBag({
                 Entered(op, args, firstPc,
                         IF error = NoResult /\ connection # "connected"
                         THEN RawError("TypeError")    \* null.execute(...)
                         ELSE error)})
    /\ calls' = calls + 1

(***************************** addProduct ***********************************)
CallAddProduct ==
    /\ \E a \in AddProductCalls :
         Begin("addProduct", a, "ap_insert", validateInput(a, addProductRules))
    /\ UNCHANGED <<products, transactions, checkEnforced, connection, faulty, stock0>>

AddProductInsert(rq) ==
    /\ rq.pc = "ap_insert"
    /\ LET a == rq.args
           pid == a.productId.s
           out == InsertProductOutcome(pid, a.price.n, a.stock.n)
       IN  IF out = "ok"
           THEN /\ products' = [products EXCEPT ![pid] =
                                  [exists |-> TRUE, price |-> a.price.n, stock |-> a.stock.n]]
                /\ stock0' = [stock0 EXCEPT ![pid] = a.stock.n]
                /\ req' = Replace(rq, [rq EXCEPT !.pc = "done", !.inserted = TRUE,
                                                 !.result = Success(<<>>)])
           ELSE /\ UNCHANGED <<products, stock0>>
                /\ req' = Replace(rq,
                            [rq EXCEPT !.pc = "done",
                                       !.dupKey = (out = "ER_DUP_ENTRY"),
                                       !.result =
                                           IF out = "ER_DUP_ENTRY"
                                           THEN InventoryNotificationError("DUPLICATE_PRODUCT", <<pid>>)
                                           ELSE RawError(out)])
    /\ UNCHANGED <<transactions, checkEnforced, connection, faulty, calls>>

(***************************** updateStock **********************************)
\* mutant: a return is taken for an increase of the stock
NewStockOrErrorReturnAdds(stock, quantity, transactionType) ==
    IF transactionType \in {"purchase", "restock", "return"} THEN Success(stock + quantity)
    ELSE IF transactionType = "sale"
        THEN IF stock < quantity
             THEN InventoryNotificationError("INSUFFICIENT_STOCK", <<stock, quantity>>)
             ELSE Success(stock - quantity)
    ELSE InventoryNotificationError("INVALID_TRANSACTION_TYPE", <<transactionType>>)

\* mutant: the stock test off by one (<= for <)
NewStockOrErrorOffByOne(stock, quantity, transactionType) ==
    IF transactionType \in {"purchase", "restock"} THEN Success(stock + quantity)
    ELSE IF transactionType = "sale"
        THEN IF stock <= quantity
             THEN InventoryNotificationError("INSUFFICIENT_STOCK", <<stock, quantity>>)
             ELSE Success(stock - quantity)
    ELSE InventoryNotificationError("INVALID_TRANSACTION_TYPE", <<transactionType>>)

\* lines 105-114: the new stock, or the error thrown
NewStockOrError(stock, quantity, transactionType) ==
    IF transactionType \in {"purchase", "restock"} THEN Success(stock + quantity)
    ELSE IF transactionType = "sale"
        THEN IF stock < quantity
             THEN InventoryNotificationError("INSUFFICIENT_STOCK", <<stock, quantity>>)
             ELSE Success(stock - quantity)
    ELSE InventoryNotificationError("INVALID_TRANSACTION_TYPE", <<transactionType>>)

\* mutant: the threshold itself does not count as low (< for <=)
LowStockBelowOnly(newStock) == newStock < lowStockThreshold

\* line 119: whether the lowStock event is emitted for this new stock
LowStock(newStock) == newStock <= lowStockThreshold

\* emit(kind): every registered observer is called in turn, and one that
\* raises makes emit itself raise
EmitRaises(kind) == kind \in faulty

CallUpdateStock ==
    /\ \E a \in UpdateStockCalls :
         Begin("updateStock", a, "us_select", validateInput(a, updateStockRules))
    /\ UNCHANGED <<products, transactions, checkEnforced, connection, faulty, stock0>>

\* mutant: lowStock is emitted before the UPDATE is awaited
AwaitUpdateEmitsFirst(rq, stock, newStock) ==
    [rq EXCEPT !.pc = "us_update", !.oldStock = <<stock>>, !.newStock = newStock,
               !.lowStock = IF newStock <= lowStockThreshold THEN <<newStock>> ELSE <<>>]

\* line 116: updateStock at its await of the UPDATE, newStock computed
AwaitUpdate(rq, stock, newStock) ==
    [rq EXCEPT !.pc = "us_update", !.oldStock = <<stock>>, !.newStock = newStock]

\* the arguments updateStock runs with: the call's own, or those line 164
\* passes from createTransaction
UpdateStockArgsOf(rq) ==
    IF rq.op = "createTransaction"
    THEN UpdateStockArgs(rq.args.productId, rq.args.quantity, rq.args.type)
    ELSE rq.args

\* SELECT * FROM products WHERE product_id = ?, and the code up to the UPDATE
UpdateStockSelect(rq) ==
    /\ rq.pc = "us_select"
    /\ LET a == UpdateStockArgsOf(rq)
           product == products[a.productId.s]
       IN  IF ~product.exists
           THEN req' = Replace(rq,
                         [rq EXCEPT !.pc = "done",
                                    !.result = InventoryNotificationError("PRODUCT_NOT_FOUND",
                                                                          <<a.productId.s>>)])
           ELSE LET n == NewStockOrError(product.stock, a.quantity.n, a.transactionType.s)
                IN  IF n.status = "ok"
                    THEN req' = Replace(rq, AwaitUpdate(rq, product.stock, n.data))
                    ELSE req' = Replace(rq, [rq EXCEPT !.pc = "done",
                                                       !.oldStock = <<product.stock>>,
                                                       !.result = n])
    /\ UNCHANGED <<products, transactions, checkEnforced, connection, faulty, calls, stock0>>

\* mutant: the amount is the unit price, whatever the quantity
TotalAmountUnitPrice(price, quantity) == price

\* line 150: totalAmount
TotalAmount(price, quantity) == price * quantity

\* the rest of createTransaction once updateStock has returned (lines 166-176)
AfterUpdateStock(rq) ==
    IF rq.op = "createTransaction"
    THEN [rq EXCEPT !.pc = "done", !.txComplete = TRUE,
                    !.observerRaised = EmitRaises("transactionComplete"),
                    !.result = IF EmitRaises("transactionComplete")
                               THEN RawError("OBSERVER_ERROR")
                               ELSE Success(<<TotalAmount(rq.price, rq.args.quantity.n)>>)]
    ELSE [rq EXCEPT !.pc = "done", !.result = Success(<<rq.oldStock[1], rq.newStock>>)]

\* UPDATE products SET stock = ?, and the code up to the return (lines 116-123)
UpdateStockUpdate(rq) ==
    /\ rq.pc = "us_update"
    /\ LET pid == rq.args.productId.s
           row == products[pid]
       IN  IF checkEnforced /\ ~ProductChecksHold(row.price, rq.newStock)
           THEN /\ UNCHANGED products
                /\ req' = Replace(rq, [rq EXCEPT !.pc = "done",
                                                 !.result = RawError("ER_CHECK_CONSTRAINT_VIOLATED")])
           ELSE /\ products' = [products EXCEPT ![pid].stock = rq.newStock]
                /\ LET w == [rq EXCEPT !.written = <<rq.newStock>>]
                   IN  IF LowStock(rq.newStock)
                       THEN IF EmitRaises("lowStock")
                            THEN req' = Replace(rq,
                                          [w EXCEPT !.pc = "done",
                                                    !.lowStock = <<rq.newStock>>,
                                                    !.observerRaised = TRUE,
                                                    !.result = RawError("OBSERVER_ERROR")])
                            ELSE req' = Replace(rq,
                                          AfterUpdateStock([w EXCEPT !.lowStock = <<rq.newStock>>]))
                       ELSE req' = Replace(rq, AfterUpdateStock(w))
    /\ UNCHANGED <<transactions, checkEnforced, connection, faulty, calls, stock0>>

(*************************** createTransaction ******************************)
CallCreateTransaction ==
    /\ \E a \in CreateTransactionCalls :
         Begin("createTransaction", a, "ct_select",
               validateInput(a, createTransactionRules))
    /\ UNCHANGED <<products, transactions, checkEnforced, connection, faulty, stock0>>

\* mutant: createTransaction goes on to its INSERT without testing that the
\* SELECT returned a product
CreateTransactionSelectNoTest(rq) ==
    /\ rq.pc = "ct_select"
    /\ LET product == products[rq.args.productId.s]
       IN  req' = Replace(rq, [rq EXCEPT !.pc = "ct_insert",
                                         !.price = IF product.exists THEN product.price ELSE 0])
    /\ UNCHANGED <<products, transactions, checkEnforced, connection, faulty, calls, stock0>>

\* SELECT * FROM products WHERE product_id = ?, and the code up to the INSERT
CreateTransactionSelect(rq) ==
    /\ rq.pc = "ct_select"
    /\ LET a == rq.args
           product == products[a.productId.s]
       IN  IF ~product.exists
           THEN req' = Replace(rq,
                         [rq EXCEPT !.pc = "done",
                                    !.result = InventoryNotificationError("PRODUCT_NOT_FOUND",
                                                                          <<a.productId.s>>)])
           ELSE req' = Replace(rq, [rq EXCEPT !.pc = "ct_insert", !.price = product.price])
    /\ UNCHANGED <<products, transactions, checkEnforced, connection, faulty, calls, stock0>>

\* INSERT INTO transactions with its trigger, and the code up to the SELECT
\* of the updateStock call of line 164
CreateTransactionInsert(rq) ==
    /\ rq.pc = "ct_insert"
    /\ LET a == rq.args
           tid == a.transactionId.s
           pid == a.productId.s
           out == InsertTransactionOutcome(tid, pid, a.quantity.n, a.type.s, a.customerId.s)
           v == validateInput(UpdateStockArgsOf(rq), updateStockRules)
       IN  IF out = "ok"
           THEN /\ transactions' = [transactions EXCEPT ![tid] =
                      [exists |-> TRUE, product_id |-> pid, quantity |-> a.quantity.n,
                       type |-> a.type.s, customer_id |-> a.customerId.s,
                       unit_price |-> rq.price,
                       total_amount |-> TotalAmount(rq.price, a.quantity.n)]]
                /\ products' = [products EXCEPT ![pid].stock =
                                   TriggerStock(a.type.s, a.quantity.n, @)]
                /\ req' = Replace(rq,
                            [rq EXCEPT !.inserted = TRUE,
                                       !.pc = IF v = NoResult THEN "us_select" ELSE "done",
                                       !.result = v])
           ELSE /\ UNCHANGED <<products, transactions>>
                /\ req' = Replace(rq, [rq EXCEPT !.pc = "done",
                                                 !.dupKey = (out = "ER_DUP_ENTRY"),
                                                 !.result = RawError(out)])
    /\ UNCHANGED <<checkEnforced, connection, faulty, calls, stock0>>

(**************************** request boundary ******************************)
\* a path as its segments: /products/P1 is <<"products", "P1">>
\* lines 80-102: the handler a request is routed to, "none" when no route
\* matches
Route(method, path) ==
    IF path = <<"products">> /\ method = "POST" THEN "addProduct"
    ELSE IF path = <<"products">> /\ method = "GET" THEN "getProducts"
    ELSE IF Len(path) >= 2 /\ path[1] = "products" /\ method = "PUT" THEN "updateStock"
    ELSE IF path = <<"transactions">> /\ method = "POST" THEN "createTransaction"
    ELSE IF Len(path) = 2 /\ path[1] = "reports" /\ method = "GET"
            /\ path[2] \in {"inventory", "low-stock", "sales", "top-products"}
        THEN "report"
    ELSE IF Len(path) = 3 /\ path[1] = "products" /\ path[3] = "history" /\ method = "GET"
        THEN "productHistory"
    ELSE "none"

\* requests other than those of the three operations
OtherRequests ==
    {[method |-> "DELETE", path |-> <<"products">>],
     [method |-> "GET", path |-> <<"products">>]}

NotFound == [status |-> "notFound"]

\* line 101: a request that matches no route is answered at once
HandleUnmatched ==
    /\ \E r \in OtherRequests :
         /\ Route(r.method, r.path) = "none"
         /\ Begin("none", r, "done", NotFound)
    /\ UNCHANGED <<products, transactions, checkEnforced, connection, faulty, stock0>>

\* the status code of the response to a request that has been answered:
\* sendJSON's 201 or default 200, line 101, lines 106-110
StatusCode(rq) ==
    IF rq.result = NotFound THEN 404
    ELSE IF rq.result.status = "ok"
        THEN IF rq.op \in {"addProduct", "createTransaction"} THEN 201 ELSE 200
    ELSE IF rq.result.typed THEN 400
    ELSE 500

(************************** observer registry *******************************)
\* on(kind, listener) with a listener that raises when it is called
On(kind) ==
    /\ kind \notin faulty
    /\ faulty' = faulty \cup {kind}
    /\ UNCHANGED <<products, transactions, checkEnforced, connection, req, calls, stock0>>

(*************************** specifications *********************************)
\* the store after database.sql, with one product, and the manager after
\* init(): connected, with the two observers of lines 27-28, which return
InitStore ==
    /\ \E s \in InitStocks :
         /\ products = [p \in ProductIds |->
                          IF p = "P1" THEN [exists |-> TRUE, price |-> 100, stock |-> s]
                          ELSE NoRow]
         /\ stock0 = [p \in ProductIds |-> IF p = "P1" THEN s ELSE 0]
    /\ transactions = [t \in TransactionIds |-> NoRow]
    /\ checkEnforced \in BOOLEAN

Init ==
    /\ InitStore
    /\ connection = "connected"
    /\ faulty = {}
    /\ req = EmptyBag
    /\ calls = 0

Next ==
    \/ HandleUnmatched
    \/ CallAddProduct
    \/ CallUpdateStock
    \/ CallCreateTransaction
    \/ \E rq \in Requests : AddProductInsert(rq)
    \/ \E rq \in Requests : UpdateStockSelect(rq)
    \/ \E rq \in Requests : UpdateStockUpdate(rq)
    \/ \E rq \in Requests : CreateTransactionSelect(rq)
    \/ \E rq \in Requests : CreateTransactionInsert(rq)

Spec == Init /\ [][Next]_vars

\* the same program with observers that raise registered by its embedder
NextObserver == Next \/ \E kind \in EventKinds : On(kind)

SpecObserver == Init /\ [][NextObserver]_vars

(******************************* startup ************************************)
\* line 23: createConnection resolves; lines 27-28 register the two observers
Connect ==
    /\ connection = "pending"
    /\ connection' = "connected"
    /\ UNCHANGED <<products, transactions, checkEnforced, faulty, req, calls, stock0>>

\* lines 29-31: createConnection rejects and init() rejects in its turn; the
\* constructor (line 18) holds no handler for it, which ends the process
ConnectFails ==
    /\ connection = "pending"
    /\ connection' = "exited"
    /\ UNCHANGED <<products, transactions, checkEnforced, faulty, req, calls, stock0>>

\* the process as main starts it: the constructors have returned with init()
\* pending, and start() listens
InitStartup ==
    /\ InitStore
    /\ connection = "pending"
    /\ faulty = {}
    /\ req = EmptyBag
    /\ calls = 0

NextStartup == Connect \/ ConnectFails \/ Next

SpecStartup == InitStartup /\ [][NextStartup]_vars

(********************* the three stock-applying paths ***********************)
MaxStock == 4        \* stocks 0..MaxStock
MaxQuantity == 3     \* quantities 1..MaxQuantity

\* procedure UpdateProductStock: the stock it stores, or its SIGNAL
UpdateProductStock(stock, quantity, type) ==
    LET new_stock == IF type = "sale" THEN stock - quantity ELSE stock + quantity
    IN  IF new_stock < 0 THEN RawError("45000") ELSE Success(new_stock)

\* the trigger's UPDATE on its own: the stock it stores, or the error of the
\* CHECK on products.stock where the store enforces it
TriggerOutcome(stock, quantity, type) ==
    LET new_stock == TriggerStock(type, quantity, stock)
    IN  IF checkEnforced /\ ~ProductChecksHold(0, new_stock)
        THEN RawError("ER_CHECK_CONSTRAINT_VIOLATED")
        ELSE Success(new_stock)

\* each of the three paths is applied to the stock of the product, for the
\* quantity and type of rq
ApplyStockPaths(rq) ==
    /\ rq.pc = "called"
    /\ rq.op = "stockPaths"
    /\ LET stock == products[rq.args.productId.s].stock
           q == rq.args.quantity.n
           ty == rq.args.transactionType.s
       IN  req' = Replace(rq,
                    [rq EXCEPT !.pc = "done",
                               !.oldStock = <<stock>>,
                               !.result = [status |-> "paths",
                                           updateStock |-> NewStockOrError(stock, q, ty),
                                           trigger |-> TriggerOutcome(stock, q, ty),
                                           procedure |-> UpdateProductStock(stock, q, ty)]])
    /\ UNCHANGED <<products, transactions, checkEnforced, connection, faulty, calls, stock0>>

\* one product with any stock, and one quantity and type to apply to it
InitStockPaths ==
    /\ \E s \in 0..MaxStock :
         /\ products = [p \in ProductIds |->
                          IF p = "P1" THEN [exists |-> TRUE, price |-> 100, stock |-> s]
                          ELSE NoRow]
         /\ stock0 = [p \in ProductIds |-> IF p = "P1" THEN s ELSE 0]
    /\ transactions = [t \in TransactionIds |-> NoRow]
    /\ checkEnforced \in BOOLEAN
    /\ connection = "connected"
    /\ faulty = {}
    /\ calls = 0
    /\ \E q \in 1..MaxQuantity, ty \in TransactionTypes :
         req = SetToBag({[NewReq EXCEPT !.op = "stockPaths",
                                        !.args = UpdateStockArgs(Str("P1"), Num(q), Str(ty))]})

NextStockPaths == \E rq \in Requests : ApplyStockPaths(rq)

SpecStockPaths == InitStockPaths /\ [][NextStockPaths]_vars

(************************ validateInput on its own **************************)
\* values a field of a request body can have: missing, of the wrong type, at
\* and around the minimums
StringFieldValues == {Undefined, Str(""), Num(1)}
NumberFieldValues == {Undefined, Str("1"), Num(-1), Num(0), Num(1), Num(2)}

AnyAddProductCalls ==
    {[productId |-> pid, name |-> nm, price |-> pr, stock |-> st, category |-> Str("X")] :
        pid \in {Str("P2")} \cup StringFieldValues, nm \in {Str("name"), Undefined},
        pr \in NumberFieldValues, st \in NumberFieldValues}

AnyUpdateStockCalls ==
    {UpdateStockArgs(pid, q, ty) :
        pid \in {Str("P1")} \cup StringFieldValues, q \in NumberFieldValues,
        ty \in {Str("sale")} \cup StringFieldValues}

AnyCreateTransactionCalls ==
    {CreateTransactionArgs(tid, pid, q, ty, cid) :
        tid \in {Str("T1"), Undefined}, pid \in {Str("P1"), Num(1)},
        q \in NumberFieldValues, ty \in {Str("sale"), Undefined},
        cid \in {Str("C1"), Undefined}}

\* the rules of the call's operation, and its first await
RulesOf(rq) ==
    IF rq.op = "addProduct" THEN addProductRules
    ELSE IF rq.op = "updateStock" THEN updateStockRules
    ELSE createTransactionRules

FirstPc(rq) ==
    IF rq.op = "addProduct" THEN "ap_insert"
    ELSE IF rq.op = "updateStock" THEN "us_select"
    ELSE "ct_select"

\* the call runs validateInput on its arguments
Validate(rq) ==
    /\ rq.pc = "called"
    /\ req' = Replace(rq, Entered(rq.op, rq.args, FirstPc(rq),
                                  validateInput(rq.args, RulesOf(rq))))
    /\ UNCHANGED <<products, transactions, checkEnforced, connection, faulty, calls, stock0>>

\* one call, with any arguments, about to validate them
InitValidate ==
    /\ InitStore
    /\ connection = "connected"
    /\ faulty = {}
    /\ calls = 0
    /\ \E op \in {"addProduct", "updateStock", "createTransaction"} :
         \E a \in (IF op = "addProduct" THEN AnyAddProductCalls
                    ELSE IF op = "updateStock" THEN AnyUpdateStockCalls
                    ELSE AnyCreateTransactionCalls) :
            req = SetToBag({[NewReq EXCEPT !.op = op, !.args = a]})

NextValidate == \E rq \in Requests : Validate(rq)

SpecValidate == InitValidate /\ [][NextValidate]_vars

(******************************* claims *************************************)
Done(rq) == rq.pc = "done"
Ok(rq) == Done(rq) /\ rq.result.status = "ok"
Failed(rq) == Done(rq) /\ rq.result.status = "error"
FailedWith(rq, type) == Failed(rq) /\ rq.result.typed /\ rq.result.type = type
Quiescent == \A rq \in Requests : Done(rq)
Min(a, b) == IF a <= b THEN a ELSE b

\* C1: in every reachable state every product's stock is >= 0.
StockNeverNegative ==
    \A p \in ProductIds : products[p].exists => products[p].stock >= 0

IsSaleOfOne(rq) ==
    /\ rq.op = "updateStock"
    /\ rq.args.productId = Str("P1")
    /\ rq.args.quantity = Num(1)
    /\ rq.args.transactionType = Str("sale")

\* the number of calls on record that succeeded
NumOk == BagCardinality([rq \in {x \in Requests : Ok(x)} |-> req[rq]])

\* C2: when the only calls made are NumRequests concurrent updateStock sales
\* of quantity 1 on P1, whose stock was S, and all have returned, exactly
\* min(N, S) succeeded, the others failed with InsufficientStock, and the
\* stock is S - min(N, S).
ConcurrentSalesSerialized ==
    (/\ calls = NumRequests
     /\ BagCardinality(req) = NumRequests
     /\ \A rq \in Requests : Done(rq) /\ IsSaleOfOne(rq))
    => LET S == stock0["P1"]
           k == Min(NumRequests, S)
       IN  /\ NumOk = k
           /\ \A rq \in Requests : ~Ok(rq) => FailedWith(rq, "INSUFFICIENT_STOCK")
           /\ products["P1"].stock = S - k

\* C3: a createTransaction call that fails has persisted nothing: neither
\* its transaction row (with the trigger's stock change) nor a stock update.
CreateTransactionAllOrNothing ==
    \A rq \in Requests :
        (rq.op = "createTransaction" /\ Failed(rq))
        => (~rq.inserted /\ rq.written = <<>>)

RECURSIVE NetOfRows(_, _)
\* purchase/restock quantities minus sale quantities of the rows of product p
\* among the transaction ids T
NetOfRows(p, T) ==
    IF T = {} THEN 0
    ELSE LET t == CHOOSE x \in T : TRUE
             row == transactions[t]
             q == IF ~row.exists \/ row.product_id # p THEN 0
                  ELSE IF row.type \in {"purchase", "restock"} THEN row.quantity
                  ELSE IF row.type = "sale" THEN 0 - row.quantity
                  ELSE 0
         IN  q + NetOfRows(p, T \ {t})

\* C4: whenever no call is in flight, each product's stock is its stock at
\* creation plus the net of its persisted transaction rows.
LedgerConsistent ==
    Quiescent =>
        \A p \in ProductIds :
            products[p].exists =>
                products[p].stock = stock0[p] + NetOfRows(p, TransactionIds)

\* C5: a createTransaction call whose transactionId already exists fails
\* with the typed DuplicateTransaction error and persists nothing.
DuplicateTransactionRejected ==
    \A rq \in Requests :
        (rq.op = "createTransaction" /\ Done(rq) /\ rq.dupKey)
        => /\ FailedWith(rq, "DUPLICATE_TRANSACTION")
           /\ ~rq.inserted
           /\ rq.written = <<>>

\* C6: the first call being createTransaction of type sale on P1 with quantity
\* q <= s, s the stock of P1, it succeeds and leaves the stock at s - q.
SaleAppliedOnce ==
    \A rq \in Requests :
        (/\ calls = 1
         /\ Done(rq)
         /\ rq.op = "createTransaction"
         /\ rq.args.productId = Str("P1")
         /\ rq.args.type = Str("sale")
         /\ rq.args.quantity.n >= 1
         /\ rq.args.quantity.n <= stock0["P1"])
        => /\ Ok(rq)
           /\ products["P1"].stock = stock0["P1"] - rq.args.quantity.n

IsSale(rq) == UpdateStockArgsOf(rq).transactionType = Str("sale")
Quantity(rq) == UpdateStockArgsOf(rq).quantity.n

\* C7: an updateStock sale (its quantity has passed validation) that reads
\* stock s: with quantity s it stores stock 0 and returns {oldStock: s,
\* newStock: 0}; with quantity s + 1 it fails with InsufficientStock
\* (available s, requested s + 1) and stores nothing.
SaleBoundary ==
    \A rq \in Requests :
        (rq.oldStock # <<>> /\ IsSale(rq)) =>
            LET s == rq.oldStock[1]
            IN  /\ Quantity(rq) = s =>
                      IF rq.pc = "us_update"
                      THEN rq.newStock = 0 /\ rq.written = <<>>
                      ELSE /\ Ok(rq)
                           /\ rq.written = <<0>>
                           /\ rq.op = "updateStock" => rq.result = Success(<<s, 0>>)
                /\ Quantity(rq) = s + 1 =>
                      /\ Done(rq)
                      /\ rq.result =
                             InventoryNotificationError("INSUFFICIENT_STOCK", <<s, s + 1>>)
                      /\ rq.written = <<>>

\* C7 witness: a sale of exactly the stock has succeeded and left 0, and a
\* sale of one more than the stock has failed.
SaleBoundaryWitness ==
    \E r1, r2 \in Requests :
        /\ r1.op = "updateStock" /\ Ok(r1) /\ IsSale(r1)
        /\ Quantity(r1) = r1.oldStock[1] /\ r1.written = <<0>>
        /\ r2.op = "updateStock" /\ FailedWith(r2, "INSUFFICIENT_STOCK")
        /\ Quantity(r2) = r2.oldStock[1] + 1

\* updateStock, called directly or by createTransaction, has returned
UpdateStockReturned(rq) ==
    IF rq.op = "updateStock" THEN Ok(rq)
    ELSE /\ rq.op = "createTransaction"
         /\ Done(rq)
         /\ rq.written # <<>>
         /\ rq.observerRaised => rq.txComplete

\* C8: an updateStock that has returned has raised one lowStock event
\* carrying the stock it stored if that stock is <= lowStockThreshold, and
\* none otherwise.
LowStockIffAtOrBelowThreshold ==
    \A rq \in Requests :
        UpdateStockReturned(rq) =>
            /\ rq.written = <<rq.newStock>>
            /\ rq.lowStock = IF rq.written[1] <= lowStockThreshold
                             THEN rq.written
                             ELSE <<>>

\* C8 witness: a sale from above the threshold to below it has raised the
\* event with the new stock, and a purchase from below the threshold to above
\* it has raised none.
LowStockWitness ==
    \E r1, r2 \in Requests :
        /\ r1.op = "updateStock" /\ Ok(r1) /\ IsSale(r1)
        /\ r1.oldStock[1] > lowStockThreshold
        /\ r1.newStock <= lowStockThreshold
        /\ r1.lowStock = <<r1.newStock>>
        /\ r2.op = "updateStock" /\ Ok(r2)
        /\ r2.args.transactionType = Str("purchase")
        /\ r2.oldStock[1] <= lowStockThreshold
        /\ r2.newStock > lowStockThreshold
        /\ r2.lowStock = <<>>

\* C9: a lowStock event is raised only by a call that has stored the stock it
\* carries; a transactionComplete event is raised only by a call that has
\* stored its row and its stock, and by no createTransaction call that fails.
NotifiedOnlyAfterPersisted ==
    \A rq \in Requests :
        /\ rq.lowStock # <<>> => rq.lowStock = rq.written
        /\ rq.txComplete => rq.inserted /\ rq.written # <<>>
        /\ Failed(rq) => ~rq.txComplete

\* C9 witness: one createTransaction call has failed after its INSERT, without
\* any event, and another has succeeded with both events.
NotifiedWitness ==
    \E r1, r2 \in Requests :
        /\ r1.op = "createTransaction" /\ Failed(r1) /\ r1.inserted
        /\ r1.lowStock = <<>> /\ ~r1.txComplete
        /\ r2.op = "createTransaction" /\ Ok(r2)
        /\ r2.lowStock # <<>> /\ r2.txComplete

\* C10: a call during which an observer raised returns success all the same,
\* and what it had stored stays stored.
ObserverFailureIsolated ==
    \A rq \in Requests :
        (Done(rq) /\ rq.observerRaised) => (Ok(rq) /\ rq.written # <<>>)

\* what a call whose updateStock read stock s and computed newStock n shows:
\* n is stored by the UPDATE, and a direct call returns {oldStock: s, newStock: n}
Applied(rq, s, n) ==
    IF rq.pc = "us_update"
    THEN rq.newStock = n /\ rq.written = <<>>
    ELSE /\ Ok(rq)
         /\ rq.written = <<n>>
         /\ rq.op = "updateStock" => rq.result = Success(<<s, n>>)

\* C11: an updateStock that reads stock s, with quantity q >= 1: type purchase
\* or restock stores s + q and returns {oldStock: s, newStock: s + q}; type
\* sale with q <= s stores s - q and returns {oldStock: s, newStock: s - q};
\* any other type fails with InvalidTransactionType and stores nothing.
SignRule ==
    \A rq \in Requests :
        rq.oldStock # <<>> =>
            LET s == rq.oldStock[1]
                q == Quantity(rq)
                t == UpdateStockArgsOf(rq).transactionType.s
            IN  /\ t \in {"purchase", "restock"} => Applied(rq, s, s + q)
                /\ (t = "sale" /\ q <= s) => Applied(rq, s, s - q)
                /\ t \notin {"purchase", "restock", "sale"} =>
                      /\ FailedWith(rq, "INVALID_TRANSACTION_TYPE")
                      /\ rq.written = <<>>

\* C11 witness: a restock has returned the stock it read and that stock plus
\* its quantity, and an adjustment has failed on its type.
SignRuleWitness ==
    \E r1, r2 \in Requests :
        /\ r1.op = "updateStock" /\ Ok(r1)
        /\ r1.args.transactionType = Str("restock")
        /\ r1.result = Success(<<r1.oldStock[1], r1.oldStock[1] + r1.args.quantity.n>>)
        /\ r1.written = <<r1.oldStock[1] + r1.args.quantity.n>>
        /\ r2.op = "updateStock" /\ r2.args.transactionType = Str("adjustment")
        /\ r2.oldStock # <<>>
        /\ FailedWith(r2, "INVALID_TRANSACTION_TYPE") /\ r2.written = <<>>

\* the fields of an addProduct call are valid by the rules' words: strings
\* given, price and stock numbers >= 0
ValidProductFields(a) ==
    /\ \A f \in {"productId", "name", "category"} : typeof(a[f]) = "string" /\ a[f].s # ""
    /\ \A f \in {"price", "stock"} : typeof(a[f]) = "number" /\ a[f].n >= 0

\* C12: an addProduct call with valid fields that has returned has either
\* succeeded, having created the product with the given stock, or failed with
\* DuplicateProduct, having met an existing product and written nothing.
AddProductCreatesOrRejectsDuplicate ==
    \A rq \in Requests :
        (rq.op = "addProduct" /\ Done(rq) /\ ValidProductFields(rq.args)) =>
            \/ /\ Ok(rq)
               /\ rq.inserted /\ ~rq.dupKey
               /\ products[rq.args.productId.s].exists
               /\ stock0[rq.args.productId.s] = rq.args.stock.n
            \/ /\ FailedWith(rq, "DUPLICATE_PRODUCT")
               /\ rq.dupKey /\ ~rq.inserted
               /\ products[rq.args.productId.s].exists

\* C13: an updateStock or createTransaction call on a productId that has no
\* product fails, once its SELECT has run, with ProductNotFound; and a call
\* that fails with ProductNotFound has inserted no row and stored no stock.
ProductNotFoundChangesNothing ==
    \A rq \in Requests :
        rq.op \in {"updateStock", "createTransaction"} =>
            /\ (/\ validateInput(rq.args, RulesOf(rq)) = NoResult
                /\ ~products[rq.args.productId.s].exists
                /\ rq.pc \notin {"us_select", "ct_select"})
               => FailedWith(rq, "PRODUCT_NOT_FOUND")
            /\ FailedWith(rq, "PRODUCT_NOT_FOUND")
               => (~rq.inserted /\ rq.written = <<>> /\ rq.oldStock = <<>>)

\* C13 witness: an updateStock call and a createTransaction call on a product
\* that does not exist have both failed with ProductNotFound.
ProductNotFoundWitness ==
    \E r1, r2 \in Requests :
        /\ r1.op = "updateStock" /\ FailedWith(r1, "PRODUCT_NOT_FOUND")
        /\ r2.op = "createTransaction" /\ FailedWith(r2, "PRODUCT_NOT_FOUND")
        /\ ~products[r1.args.productId.s].exists
        /\ ~products[r2.args.productId.s].exists
        /\ \A t \in TransactionIds : ~transactions[t].exists

\* C14: a createTransaction call whose type is a string outside
\* TransactionTypes is rejected with ValidationError as it is made, before any
\* statement reaches the store: it is never in flight, inserts no row and
\* stores no stock.
TypeValidatedBeforeStore ==
    \A rq \in Requests :
        (/\ rq.op = "createTransaction"
         /\ typeof(rq.args.type) = "string"
         /\ rq.args.type.s \notin TransactionTypes)
        => /\ FailedWith(rq, "VALIDATION_ERROR")
           /\ ~rq.inserted
           /\ rq.written = <<>>

\* validateInput has let the call through to its first statement
Accepted(rq) == rq.pc \notin {"called", "done"}
Rejected(rq) == FailedWith(rq, "VALIDATION_ERROR") /\ ~rq.inserted

\* C15: an addProduct call with its string fields given and numeric price and
\* stock is let through by validation exactly when price >= 0 and stock >= 0
\* (0 included); with a negative price or stock it is rejected with
\* ValidationError and no statement is sent to the store.
MinimumZeroRule ==
    \A rq \in Requests :
        (/\ rq.op = "addProduct" /\ rq.pc # "called"
         /\ \A f \in {"productId", "name", "category"} :
                typeof(rq.args[f]) = "string" /\ rq.args[f].s # ""
         /\ \A f \in {"price", "stock"} : typeof(rq.args[f]) = "number")
        => IF rq.args.price.n >= 0 /\ rq.args.stock.n >= 0
           THEN Accepted(rq)
           ELSE Rejected(rq)

\* the rule of a field that a value violates, by the rules' words: required
\* (no value given), then type, then minimum (a number below rule.min)
ViolatedRule(v, rule) ==
    IF rule.required /\ (v = Undefined \/ v = Str("")) THEN "required"
    ELSE IF typeof(v) # rule.type THEN "type"
    ELSE IF rule.hasMin /\ v.n < rule.min THEN "min"
    ELSE "ok"

\* C16: validateInput fails on the first field, in the order of the rule set,
\* that violates one of its rules, with a ValidationError naming that field
\* and the first rule it violates (required, type, minimum: quantity = 0 is
\* a violation of the minimum 1); when no rule is violated the call goes on,
\* nothing having been written.
FirstViolationReported ==
    \A rq \in Requests :
        rq.pc # "called" =>
            LET rules == RulesOf(rq)
                bad == {i \in 1..Len(rules) :
                           ViolatedRule(rq.args[rules[i].field], rules[i]) # "ok"}
            IN  IF bad = {}
                THEN ~Rejected(rq)
                ELSE LET i == CHOOSE j \in bad : \A k \in bad : j <= k
                     IN  /\ Done(rq)
                         /\ rq.result =
                              InventoryNotificationError("VALIDATION_ERROR",
                                  <<rules[i].field,
                                    ViolatedRule(rq.args[rules[i].field], rules[i])>>)

\* C17: every transaction row has the price of its product in the store as
\* unit_price and unit_price * quantity as total_amount, and a createTransaction
\* call that has succeeded has stored the row of its arguments and returned
\* that row's total_amount.
TotalAmountFromStoredPrice ==
    /\ \A t \in TransactionIds :
          transactions[t].exists =>
              /\ transactions[t].unit_price = products[transactions[t].product_id].price
              /\ transactions[t].total_amount =
                     transactions[t].unit_price * transactions[t].quantity
    /\ \A rq \in Requests :
          (rq.op = "createTransaction" /\ Ok(rq)) =>
              LET row == transactions[rq.args.transactionId.s]
              IN  /\ row.exists
                  /\ row.product_id = rq.args.productId.s
                  /\ row.quantity = rq.args.quantity.n
                  /\ rq.result = Success(<<row.total_amount>>)

\* C17 witness: a createTransaction of quantity 3 on the product of price 100
\* has stored a row of total_amount 300 and returned 300.
TotalAmountWitness ==
    \E rq \in Requests :
        /\ rq.op = "createTransaction" /\ Ok(rq)
        /\ rq.args.quantity = Num(3) /\ rq.price = 100
        /\ rq.result = Success(<<300>>)
        /\ transactions[rq.args.transactionId.s].unit_price = 100
        /\ transactions[rq.args.transactionId.s].total_amount = 300

\* C18: a transaction row that exists is left as it is by every step of
\* every operation: none of its fields changes and it is not deleted.
TransactionsAppendOnly ==
    [][\A t \in TransactionIds :
          transactions[t].exists => transactions'[t] = transactions[t]]_vars

\* C18 witness: a createTransaction call has sent its INSERT for an id whose
\* row existed, with other values than the row's, and the row is in the store.
TransactionsAppendOnlyWitness ==
    \E rq \in Requests :
        /\ rq.op = "createTransaction" /\ Done(rq) /\ rq.dupKey
        /\ transactions[rq.args.transactionId.s].exists
        /\ transactions[rq.args.transactionId.s].quantity # rq.args.quantity.n

\* the failure of a call is one of the error taxonomy: a typed error of the
\* manager, or a createTransaction whose transaction id was already taken
InTaxonomy(rq) ==
    /\ Failed(rq)
    /\ \/ /\ rq.result.typed
          /\ rq.result.type \in {"VALIDATION_ERROR", "DUPLICATE_PRODUCT", "PRODUCT_NOT_FOUND",
                                  "INSUFFICIENT_STOCK", "INVALID_TRANSACTION_TYPE"}
       \/ rq.op = "createTransaction" /\ rq.dupKey

\* C19: a request that has been answered has status 400 when its call failed
\* with an error of the taxonomy (DuplicateTransaction included), 404 when no
\* route matched it, 500 only when its call failed otherwise, 201 for a
\* successful addProduct or createTransaction and 200 for a successful
\* updateStock.
HttpStatusMapping ==
    \A rq \in Requests :
        Done(rq) =>
            /\ InTaxonomy(rq) => StatusCode(rq) = 400
            /\ rq.op = "none" => StatusCode(rq) = 404
            /\ StatusCode(rq) = 500 => (Failed(rq) /\ ~InTaxonomy(rq))
            /\ Ok(rq) => StatusCode(rq) = IF rq.op = "updateStock" THEN 200 ELSE 201

\* C20: no call into the InventoryManager is on record, in flight or
\* returned, unless the store connection is established (and with it the
\* observers registered): none while it is awaited, none when it has failed.
NoRequestBeforeConnected ==
    \A rq \in Requests :
        rq.op \in {"addProduct", "updateStock", "createTransaction"}
            => connection = "connected"

\* the stock a path leaves: the one it stores, or the old one when it rejects
StockLeft(outcome, stock) == IF outcome.status = "ok" THEN outcome.data ELSE stock

\* C21: for every transaction type, stock and quantity, updateStock, the
\* trigger trg_transaction_after_insert and the procedure UpdateProductStock
\* leave the same stock: all three store the same value, or all three reject
\* or leave the stock as it is.
SameSignMapping ==
    \A rq \in Requests :
        (rq.op = "stockPaths" /\ Done(rq)) =>
            LET s == rq.oldStock[1]
            IN  /\ StockLeft(rq.result.updateStock, s) = StockLeft(rq.result.trigger, s)
                /\ StockLeft(rq.result.updateStock, s) = StockLeft(rq.result.procedure, s)

=============================================================================
